---- MODULE Spec2Model ----
(***************************************************************************)
(* Model of the assert-within crate (src/lib.rs): the two tolerance checks  *)
(* assert_within_add_impl and assert_within_mul_impl, generic over          *)
(* num_traits::FloatCore, and the assert_within! macro that calls them.     *)
(*                                                                          *)
(* The float type N is modelled as a small IEEE-754 binary format: signed   *)
(* zeros, subnormals, infinities, one NaN, round-to-nearest-even, overflow  *)
(* to infinity.  A finite value is sign * mag * 2^-FracBits with            *)
(* mag = m * 2^j, m < 2^Precision, j in 0..ExpRange.                        *)
(***************************************************************************)
EXTENDS Integers, Sequences, FiniteSets, TLC

VARIABLES pc, via, fn, file, line, val, val_str, target, target_str, eps,
          fmt_args, result

vars == <<pc, via, fn, file, line, val, val_str, target, target_str, eps,
          fmt_args, result>>

inputs == <<file, line, val, val_str, target, target_str, eps, fmt_args>>

(***************************************************************************)
(* Bounds of the float format.                                              *)
(***************************************************************************)
Precision == 2
ExpRange == 5
FracBits == 3

RECURSIVE Pow(_, _)
Pow(b, n) == IF n = 0 THEN 1 ELSE b * Pow(b, n - 1)

Unit == Pow(2, FracBits)
MantLimit == Pow(2, Precision)
OverflowMag == MantLimit * Pow(2, ExpRange)

(***************************************************************************)
(* The values of N.                                                         *)
(***************************************************************************)
Fin(s, k) == [cls |-> "fin", neg |-> s, mag |-> k]
Inf(s) == [cls |-> "inf", neg |-> s, mag |-> 0]
NaN == [cls |-> "nan", neg |-> FALSE, mag |-> 0]

FiniteMags == {m * Pow(2, j) : m \in 0..(MantLimit - 1), j \in 0..ExpRange}

Floats ==
    {NaN} \cup {Inf(s) : s \in BOOLEAN}
          \cup {Fin(s, k) : s \in BOOLEAN, k \in FiniteMags}

zero == Fin(FALSE, 0)
one == Fin(FALSE, Unit)

is_nan(x) == x.cls = "nan"
IsFinite(x) == x.cls = "fin"

\* The exact value of a finite x, in units of 2^-FracBits.
Exact(x) == IF x.neg THEN 0 - x.mag ELSE x.mag

Neg(x) == IF is_nan(x) THEN NaN ELSE [x EXCEPT !.neg = ~x.neg]

(***************************************************************************)
(* Rounding of the non-negative rational n/d (in units of 2^-FracBits) to   *)
(* the nearest magnitude of the format, ties to the even mantissa; a        *)
(* result at or beyond OverflowMag is infinite.                             *)
(***************************************************************************)
Binade(n, d) ==
    CHOOSE j \in 0..ExpRange :
        /\ n < MantLimit * Pow(2, j) * d
        /\ j = 0 \/ n >= MantLimit * Pow(2, j - 1) * d

RoundMag(s, n, d) ==
    IF n >= OverflowMag * d THEN Inf(s)
    ELSE LET j == Binade(n, d)
             q == d * Pow(2, j)
             m == n \div q
             r == n % q
             up == IF 2 * r > q THEN 1
                   ELSE IF 2 * r = q THEN m % 2
                   ELSE 0
             k == (m + up) * Pow(2, j)
         IN  IF k >= OverflowMag THEN Inf(s) ELSE Fin(s, k)

(***************************************************************************)
(* Arithmetic and comparison of N (core::ops::Add, Sub, Mul, PartialOrd).   *)
(***************************************************************************)
FAdd(a, b) ==
    IF is_nan(a) \/ is_nan(b) THEN NaN
    ELSE IF a.cls = "inf" /\ b.cls = "inf"
         THEN IF a.neg = b.neg THEN a ELSE NaN
    ELSE IF a.cls = "inf" THEN a
    ELSE IF b.cls = "inf" THEN b
    ELSE LET s == Exact(a) + Exact(b)
         IN  IF s = 0 THEN Fin(a.neg /\ b.neg, 0)
             ELSE IF s < 0 THEN RoundMag(TRUE, 0 - s, 1)
             ELSE RoundMag(FALSE, s, 1)

FSub(a, b) == FAdd(a, Neg(b))

FMul(a, b) ==
    IF is_nan(a) \/ is_nan(b) THEN NaN
    ELSE LET s == (a.neg # b.neg)
         IN  IF a.cls = "inf" \/ b.cls = "inf"
             THEN IF (IsFinite(a) /\ a.mag = 0) \/ (IsFinite(b) /\ b.mag = 0)
                  THEN NaN
                  ELSE Inf(s)
             ELSE RoundMag(s, a.mag * b.mag, Unit)

\* a < b of PartialOrd: false when either side is NaN; -0 and +0 are equal.
FLt(a, b) ==
    IF is_nan(a) \/ is_nan(b) THEN FALSE
    ELSE IF a.cls = "inf" THEN a.neg /\ ~(b.cls = "inf" /\ b.neg)
    ELSE IF b.cls = "inf" THEN ~b.neg
    ELSE Exact(a) < Exact(b)

FGt(a, b) == FLt(b, a)

\* a == b of PartialEq.
FEq(a, b) == ~is_nan(a) /\ ~is_nan(b) /\ ~FLt(a, b) /\ ~FLt(b, a)

(***************************************************************************)
(* Display of N (core::fmt::Display): "NaN", "inf", "-inf", and for a       *)
(* finite value the sign, the integer part and the exact decimal fraction   *)
(* ("1", "-0", "0.25").                                                     *)
(***************************************************************************)
RECURSIVE FracDigits(_)
FracDigits(r) ==
    IF r = 0 THEN ""
    ELSE ToString((r * 10) \div Unit) \o FracDigits((r * 10) % Unit)

Display(x) ==
    IF is_nan(x) THEN "NaN"
    ELSE LET sign == IF x.neg THEN "-" ELSE ""
         IN  IF x.cls = "inf" THEN sign \o "inf"
             ELSE sign \o ToString(x.mag \div Unit)
                       \o (IF x.mag % Unit = 0 THEN ""
                           ELSE "." \o FracDigits(x.mag % Unit))

(***************************************************************************)
(* fmt::Arguments: a format template is a sequence of literal pieces and    *)
(* placeholders already bound to their arguments; displaying it             *)
(* concatenates them.  format_args!("") is the empty sequence.              *)
(***************************************************************************)
RECURSIVE Render(_)
Render(f) == IF f = <<>> THEN "" ELSE Head(f).text \o Render(Tail(f))

(***************************************************************************)
(* The panic messages, as the sequence of the pieces of each format string  *)
(* with its placeholders substituted.  The backquote of the source is       *)
(* written as an apostrophe and the plus-minus sign as +-.                   *)
(***************************************************************************)
Header(f, l) == <<"assert_within failed at ", f, ":", ToString(l), ":\n">>

MsgEpsNan(f, l, e, context) ==
    Header(f, l) \o <<"epsilon was Nan: ", Display(e), "\n", context>>

MsgEpsNegative(f, l, e, context) ==
    Header(f, l)
        \o <<"Epsilon cannot be negative when used with assert_within! macro: ",
             Display(e), "\n", context>>

MsgWasNan(f, l, str, x, context) ==
    Header(f, l) \o <<"'", str, "' was Nan: ", Display(x), "\n", context>>

MsgAddRange(f, l, v, v_str, t, t_str, e, context, rel, sign) ==
    Header(f, l)
        \o <<"'", v_str, rel, t_str, sign, Display(e), ")\nleft:  ",
             Display(v), "\nright: ", Display(t), "\n", context>>

\* The relative-mode message with the measurement printed on both lines.
MsgMulRange_LeftTwice(f, l, v, v_str, t, t_str, e, context, rel) ==
    Header(f, l)
        \o <<"'", v_str, rel, Display(e), ") * '", t_str, "'\nleft:  ",
             Display(v), "\nright: ", Display(v), "\n", context>>

MsgMulRange(f, l, v, v_str, t, t_str, e, context, rel) ==
    Header(f, l)
        \o <<"'", v_str, rel, Display(e), ") * '", t_str, "'\nleft:  ",
             Display(v), "\nright: ", Display(t), "\n", context>>

Returned(ev) == [branch |-> "ok", msg |-> <<>>, evaluated |-> ev]
Panic(b, m, ev) == [branch |-> b, msg |-> m, evaluated |-> ev]

(***************************************************************************)
(* Variants of the validation with one slip each, used to show that the     *)
(* properties below depend on it.                                           *)
(***************************************************************************)
\* The target is tested for NaN before the measurement.
Validate_TargetNanFirst(f, l, v, v_str, t, t_str, e, context) ==
    IF is_nan(e)
    THEN Panic("eps_nan", MsgEpsNan(f, l, e, context), <<"eps_nan">>)
    ELSE IF FLt(e, zero)
    THEN Panic("eps_negative", MsgEpsNegative(f, l, e, context),
               <<"eps_nan", "eps_negative">>)
    ELSE IF is_nan(t)
    THEN Panic("target_nan", MsgWasNan(f, l, t_str, t, context),
               <<"eps_nan", "eps_negative", "target_nan">>)
    ELSE IF is_nan(v)
    THEN Panic("val_nan", MsgWasNan(f, l, v_str, v, context),
               <<"eps_nan", "eps_negative", "target_nan", "val_nan">>)
    ELSE Returned(<<"eps_nan", "eps_negative", "target_nan", "val_nan">>)

\* The operands are tested for NaN before the tolerance is validated.
Validate_NanBeforeEps(f, l, v, v_str, t, t_str, e, context) ==
    IF is_nan(v)
    THEN Panic("val_nan", MsgWasNan(f, l, v_str, v, context), <<"val_nan">>)
    ELSE IF is_nan(t)
    THEN Panic("target_nan", MsgWasNan(f, l, t_str, t, context),
               <<"val_nan", "target_nan">>)
    ELSE IF is_nan(e)
    THEN Panic("eps_nan", MsgEpsNan(f, l, e, context),
               <<"val_nan", "target_nan", "eps_nan">>)
    ELSE IF FLt(e, zero)
    THEN Panic("eps_negative", MsgEpsNegative(f, l, e, context),
               <<"val_nan", "target_nan", "eps_nan", "eps_negative">>)
    ELSE Returned(<<"val_nan", "target_nan", "eps_nan", "eps_negative">>)

\* The NaN target is reported under the measurement's label.
Validate_SwappedLabel(f, l, v, v_str, t, t_str, e, context) ==
    IF is_nan(e)
    THEN Panic("eps_nan", MsgEpsNan(f, l, e, context), <<"eps_nan">>)
    ELSE IF FLt(e, zero)
    THEN Panic("eps_negative", MsgEpsNegative(f, l, e, context),
               <<"eps_nan", "eps_negative">>)
    ELSE IF is_nan(v)
    THEN Panic("val_nan", MsgWasNan(f, l, v_str, v, context),
               <<"eps_nan", "eps_negative", "val_nan">>)
    ELSE IF is_nan(t)
    THEN Panic("target_nan", MsgWasNan(f, l, v_str, t, context),
               <<"eps_nan", "eps_negative", "val_nan", "target_nan">>)
    ELSE Returned(<<"eps_nan", "eps_negative", "val_nan", "target_nan">>)

(***************************************************************************)
(* The validation shared by both functions (lines 43-61 and 93-111): the    *)
(* panic of the first test that holds, or "ok" when none does.              *)
(***************************************************************************)
Validate(f, l, v, v_str, t, t_str, e, context) ==
    IF is_nan(e)
    THEN Panic("eps_nan", MsgEpsNan(f, l, e, context), <<"eps_nan">>)
    ELSE IF FLt(e, zero)
    THEN Panic("eps_negative", MsgEpsNegative(f, l, e, context),
               <<"eps_nan", "eps_negative">>)
    ELSE IF is_nan(v)
    THEN Panic("val_nan", MsgWasNan(f, l, v_str, v, context),
               <<"eps_nan", "eps_negative", "val_nan">>)
    ELSE IF is_nan(t)
    THEN Panic("target_nan", MsgWasNan(f, l, t_str, t, context),
               <<"eps_nan", "eps_negative", "val_nan", "target_nan">>)
    ELSE Returned(<<"eps_nan", "eps_negative", "val_nan", "target_nan">>)

\* a <= b of PartialOrd.
FLe(a, b) == ~is_nan(a) /\ ~is_nan(b) /\ ~FLt(b, a)

\* The additive check with strict bounds: the boundary itself is rejected.
assert_within_add_impl_Strict(f, l, v, v_str, t, t_str, e, context) ==
    LET pre == Validate(f, l, v, v_str, t, t_str, e, context)
    IN  IF pre.branch # "ok" THEN pre
        ELSE IF FLe(v, FSub(t, e))
        THEN Panic("below",
                   MsgAddRange(f, l, v, v_str, t, t_str, e, context,
                               "' was less than '", "' - "),
                   pre.evaluated \o <<"below">>)
        ELSE IF FLe(FAdd(t, e), v)
        THEN Panic("above",
                   MsgAddRange(f, l, v, v_str, t, t_str, e, context,
                               "' was greater than '", "' + "),
                   pre.evaluated \o <<"below", "above">>)
        ELSE Returned(pre.evaluated \o <<"below", "above">>)

\* The relative check with 1 - eps used for the upper bound as well.
assert_within_mul_impl_SameFactor(f, l, v, v_str, t, t_str, e, context) ==
    LET pre == Validate(f, l, v, v_str, t, t_str, e, context)
        one_minus_eps == FSub(one, e)
    IN  IF pre.branch # "ok" THEN pre
        ELSE IF FLt(v, FMul(one_minus_eps, t))
        THEN Panic("below",
                   MsgMulRange(f, l, v, v_str, t, t_str, e, context,
                               "' was less than (1 +- "),
                   pre.evaluated \o <<"below">>)
        ELSE IF FGt(v, FMul(one_minus_eps, t))
        THEN Panic("above",
                   MsgMulRange(f, l, v, v_str, t, t_str, e, context,
                               "' was greater than (1 +- "),
                   pre.evaluated \o <<"below", "above">>)
        ELSE Returned(pre.evaluated \o <<"below", "above">>)

assert_within_add_impl(f, l, v, v_str, t, t_str, e, context) ==
    LET pre == Validate(f, l, v, v_str, t, t_str, e, context)
    IN  IF pre.branch # "ok" THEN pre
        ELSE IF FLt(v, FSub(t, e))
        THEN Panic("below",
                   MsgAddRange(f, l, v, v_str, t, t_str, e, context,
                               "' was less than '", "' - "),
                   pre.evaluated \o <<"below">>)
        ELSE IF FGt(v, FAdd(t, e))
        THEN Panic("above",
                   MsgAddRange(f, l, v, v_str, t, t_str, e, context,
                               "' was greater than '", "' + "),
                   pre.evaluated \o <<"below", "above">>)
        ELSE Returned(pre.evaluated \o <<"below", "above">>)

\* The relative check with the two factors exchanged for a negative target.
assert_within_mul_impl_SignAware(f, l, v, v_str, t, t_str, e, context) ==
    LET pre == Validate(f, l, v, v_str, t, t_str, e, context)
        one_minus_eps == IF FLt(t, zero) THEN FAdd(one, e) ELSE FSub(one, e)
        one_plus_eps == IF FLt(t, zero) THEN FSub(one, e) ELSE FAdd(one, e)
    IN  IF pre.branch # "ok" THEN pre
        ELSE IF FLt(v, FMul(one_minus_eps, t))
        THEN Panic("below",
                   MsgMulRange(f, l, v, v_str, t, t_str, e, context,
                               "' was less than (1 +- "),
                   pre.evaluated \o <<"below">>)
        ELSE IF FGt(v, FMul(one_plus_eps, t))
        THEN Panic("above",
                   MsgMulRange(f, l, v, v_str, t, t_str, e, context,
                               "' was greater than (1 +- "),
                   pre.evaluated \o <<"below", "above">>)
        ELSE Returned(pre.evaluated \o <<"below", "above">>)

assert_within_mul_impl(f, l, v, v_str, t, t_str, e, context) ==
    LET pre == Validate(f, l, v, v_str, t, t_str, e, context)
        one_minus_eps == FSub(one, e)
        one_plus_eps == FAdd(one, e)
    IN  IF pre.branch # "ok" THEN pre
        ELSE IF FLt(v, FMul(one_minus_eps, t))
        THEN Panic("below",
                   MsgMulRange(f, l, v, v_str, t, t_str, e, context,
                               "' was less than (1 +- "),
                   pre.evaluated \o <<"below">>)
        ELSE IF FGt(v, FMul(one_plus_eps, t))
        THEN Panic("above",
                   MsgMulRange(f, l, v, v_str, t, t_str, e, context,
                               "' was greater than (1 +- "),
                   pre.evaluated \o <<"below", "above">>)
        ELSE Returned(pre.evaluated \o <<"below", "above">>)

(***************************************************************************)
(* The assert_within! macro (lines 128-181).  The arm is chosen by the      *)
(* sigil and by whether format arguments follow the target; each arm        *)
(* expands to a call, by path, with file!(), line!(), the expressions and   *)
(* their stringify!() text.                                                 *)
(***************************************************************************)
MacroArm(sigil, f) ==
    IF sigil = "+" THEN (IF f.present THEN "add_fmt" ELSE "add")
    ELSE (IF f.present THEN "mul_fmt" ELSE "mul")

ArmPath(arm) ==
    IF arm \in {"add", "add_fmt"}
    THEN <<"test_utils", "assert_within_add_impl">>
    ELSE <<"test_utils", "assert_within_mul_impl">>

ArmContext(arm, f) ==
    IF arm \in {"add", "mul"} THEN Render(<<>>) ELSE Render(f.tmpl)

assert_within(sigil, epsilon, v, v_text, t, t_text, f, at_file, at_line) ==
    LET arm == MacroArm(sigil, f)
    IN  [path |-> ArmPath(arm),
         file |-> at_file, line |-> at_line,
         val |-> v, val_str |-> v_text,
         target |-> t, target_str |-> t_text,
         eps |-> epsilon,
         context |-> ArmContext(arm, f)]

\* The items of the crate, by their path from the crate root ($crate).
CrateItems == {<<"assert_within_add_impl">>, <<"assert_within_mul_impl">>}

NoResult == [branch |-> "none", msg |-> <<>>, evaluated |-> <<>>]

RunCall(c) ==
    IF c.path = <<"assert_within_add_impl">>
    THEN assert_within_add_impl(c.file, c.line, c.val, c.val_str, c.target,
                                c.target_str, c.eps, c.context)
    ELSE assert_within_mul_impl(c.file, c.line, c.val, c.val_str, c.target,
                                c.target_str, c.eps, c.context)

(***************************************************************************)
(* Inputs.  Every triple of floats is tried at one call site; a sample of   *)
(* floats is tried with every choice of site, labels and format arguments.  *)
(***************************************************************************)
Files == {"tests/a.rs", "tests/b.rs"}
Lines == {101, 230}
ValTexts == {"x", "self.total()"}
TargetTexts == {"y", "expected"}
FmtChoices ==
    {[present |-> FALSE, tmpl |-> <<>>],
     [present |-> TRUE, tmpl |-> <<>>],
     [present |-> TRUE, tmpl |-> <<[text |-> "seed="], [text |-> "7"]>>]}

MetaSamples == {NaN, zero, one, Neg(one), Inf(FALSE)}

Init ==
    /\ pc = "start"
    /\ via = "none"
    /\ fn = "none"
    /\ result = NoResult
    /\ eps \in Floats
    /\ val \in Floats
    /\ target \in Floats
    /\ file \in Files
    /\ line \in Lines
    /\ val_str \in ValTexts
    /\ target_str \in TargetTexts
    /\ fmt_args \in FmtChoices
    /\ \/ /\ file = "tests/a.rs"
          /\ line = 101
          /\ val_str = "x"
          /\ target_str = "y"
          /\ fmt_args = [present |-> TRUE,
                         tmpl |-> <<[text |-> "seed="], [text |-> "7"]>>]
       \/ {eps, val, target} \subseteq MetaSamples

Finish(name, r) ==
    /\ fn' = name
    /\ result' = r
    /\ pc' = IF r.branch = "ok" THEN "returned" ELSE "panicked"
    /\ UNCHANGED inputs

\* A direct call of the public function assert_within_add_impl.
CallAdd ==
    /\ pc = "start"
    /\ via' = "call"
    /\ Finish("assert_within_add_impl",
              assert_within_add_impl(file, line, val, val_str, target,
                                     target_str, eps, Render(fmt_args.tmpl)))

\* A direct call of the public function assert_within_mul_impl.
CallMul ==
    /\ pc = "start"
    /\ via' = "call"
    /\ Finish("assert_within_mul_impl",
              assert_within_mul_impl(file, line, val, val_str, target,
                                     target_str, eps, Render(fmt_args.tmpl)))

\* An invocation assert_within!(sigil eps, val, target [, fmt_args]).
Invoke(sigil) ==
    /\ pc = "start"
    /\ via' = sigil
    /\ LET c == assert_within(sigil, eps, val, val_str, target, target_str,
                              fmt_args, file, line)
       IN  IF c.path \in CrateItems
           THEN Finish(c.path[1], RunCall(c))
           ELSE /\ pc' = "compile_error"
                /\ fn' = "unresolved"
                /\ result' = NoResult
                /\ UNCHANGED inputs

InvokePlus == Invoke("+")
InvokeTilde == Invoke("~")

Next == CallAdd \/ CallMul \/ InvokePlus \/ InvokeTilde

Spec == Init /\ [][Next]_vars

(***************************************************************************)
(* Vocabulary of the properties.                                            *)
(***************************************************************************)
Done == pc \in {"returned", "panicked"}
IsAdd == fn = "assert_within_add_impl"
IsMul == fn = "assert_within_mul_impl"

\* The failure kind of each panic.
Kind(b) ==
    CASE b \in {"eps_nan", "eps_negative"} -> "InvalidTolerance"
      [] b \in {"val_nan", "target_nan"} -> "NotANumber"
      [] b = "below" -> "BelowRange"
      [] b = "above" -> "AboveRange"
      [] OTHER -> "Success"

Failed(k) == pc = "panicked" /\ Kind(result.branch) = k
Succeeded == pc = "returned" /\ result.branch = "ok"

Contains(m, piece) == \E i \in DOMAIN m : m[i] = piece

ValidEps == ~is_nan(eps) /\ ~FLt(eps, zero)

\* The bounds each function compares the measurement with.
LowerBound == IF IsAdd THEN FSub(target, eps) ELSE FMul(FSub(one, eps), target)
UpperBound == IF IsAdd THEN FAdd(target, eps) ELSE FMul(FAdd(one, eps), target)

\* The six conditions in the order of the specification, and their panics.
Conditions ==
    <<is_nan(eps), FLt(eps, zero), is_nan(val), is_nan(target),
      FLt(val, LowerBound), FGt(val, UpperBound)>>
ConditionNames ==
    <<"eps_nan", "eps_negative", "val_nan", "target_nan", "below", "above">>
\* The first of the conditions c that holds, 0 when none does.
FirstHolding(c) ==
    LET holding == {i \in DOMAIN c : c[i]}
    IN  IF holding = {} THEN 0
        ELSE CHOOSE i \in holding : \A j \in holding : i <= j

(***************************************************************************)
(* C1: in both functions the six conditions are tested in the fixed order   *)
(* tolerance NaN, tolerance < 0, measurement NaN, target NaN, below the     *)
(* lower bound, above the upper bound; the failure reported is that of the  *)
(* first condition that holds, the conditions after it are not evaluated,   *)
(* and the check succeeds only if none of the six holds.                    *)
(***************************************************************************)
C1_FirstViolationWins ==
    Done =>
        LET first == FirstHolding(Conditions)
        IN  IF first = 0
            THEN Succeeded /\ result.evaluated = ConditionNames
            ELSE /\ pc = "panicked"
                 /\ result.branch = ConditionNames[first]
                 /\ result.evaluated = SubSeq(ConditionNames, 1, first)

\* A negative tolerance with a NaN measurement and a NaN target: only the
\* tolerance is reported.
C1_Witness ==
    /\ Done
    /\ FLt(eps, zero) /\ is_nan(val) /\ is_nan(target)
    /\ Failed("InvalidTolerance")
    /\ Len(result.evaluated) = 2

(***************************************************************************)
(* C2: whenever the tolerance is NaN or less than 0 the check fails with    *)
(* kind InvalidTolerance, whatever the measurement and the target are       *)
(* (equal to each other, or NaN).                                           *)
(***************************************************************************)
C2_InvalidTolerance ==
    (Done /\ (is_nan(eps) \/ FLt(eps, zero))) => Failed("InvalidTolerance")

\* A NaN tolerance with the measurement equal to the target.
C2_Witness ==
    /\ Done /\ is_nan(eps) /\ FEq(val, target)
    /\ Failed("InvalidTolerance")

(***************************************************************************)
(* C3: with a valid tolerance, a NaN measurement or target makes the check  *)
(* fail with kind NotANumber, and the message names the label of the        *)
(* measurement when the measurement is NaN, of the target when only the     *)
(* target is NaN.                                                           *)
(***************************************************************************)
C3_NotANumber ==
    (Done /\ ValidEps /\ (is_nan(val) \/ is_nan(target))) =>
        /\ Failed("NotANumber")
        /\ is_nan(val) =>
              Contains(result.msg, val_str) /\ ~Contains(result.msg, target_str)
        /\ ~is_nan(val) =>
              Contains(result.msg, target_str) /\ ~Contains(result.msg, val_str)

\* A NaN target with a good measurement, reported under the target's label.
C3_Witness ==
    /\ Done /\ ValidEps /\ ~is_nan(val) /\ is_nan(target)
    /\ Failed("NotANumber")
    /\ Contains(result.msg, target_str)

(***************************************************************************)
(* C4: for every tolerance >= 0 and every non-NaN target of any sign, a     *)
(* measurement equal to the target makes both checks succeed.               *)
(***************************************************************************)
C4_EqualSucceeds ==
    (Done /\ ValidEps /\ ~is_nan(target) /\ FEq(val, target)) => Succeeded

(***************************************************************************)
(* C5 as stated: for finite measurement, target and tolerance >= 0 the      *)
(* additive check succeeds exactly when the measurement lies in the exact   *)
(* interval [target - tolerance, target + tolerance], fails with BelowRange *)
(* exactly below it and with AboveRange exactly above it.                   *)
(***************************************************************************)
C5_ExactInterval ==
    (Done /\ IsAdd /\ IsFinite(val) /\ IsFinite(target) /\ IsFinite(eps)
          /\ ~FLt(eps, zero)) =>
        LET lo == Exact(target) - Exact(eps)
            hi == Exact(target) + Exact(eps)
        IN  /\ Succeeded <=> (lo <= Exact(val) /\ Exact(val) <= hi)
            /\ Failed("BelowRange") <=> Exact(val) < lo
            /\ Failed("AboveRange") <=> Exact(val) > hi

(***************************************************************************)
(* C5 as amended: for finite measurement and target and tolerance >= 0 the  *)
(* additive check succeeds exactly when the measurement lies in the closed  *)
(* interval whose ends are target - tolerance and target + tolerance as     *)
(* computed in N (rounded to nearest), fails with BelowRange exactly below  *)
(* the computed lower end and with AboveRange exactly above the computed    *)
(* upper end; so a measurement equal to a computed end succeeds.            *)
(***************************************************************************)
C5_ComputedInterval ==
    (Done /\ IsAdd /\ IsFinite(val) /\ IsFinite(target) /\ ValidEps) =>
        LET lo == FSub(target, eps)
            hi == FAdd(target, eps)
        IN  /\ Succeeded <=> (FLe(lo, val) /\ FLe(val, hi))
            /\ Failed("BelowRange") <=> FLt(val, lo)
            /\ Failed("AboveRange") <=> FGt(val, hi)
            /\ (FEq(val, lo) \/ FEq(val, hi)) => Succeeded

\* A positive tolerance, the measurement at the computed lower end (which
\* differs from the target), accepted.
C5_Witness ==
    /\ Done /\ IsAdd /\ IsFinite(val) /\ IsFinite(target) /\ FGt(eps, zero)
    /\ FEq(val, FSub(target, eps)) /\ FLt(val, target)
    /\ Succeeded

(***************************************************************************)
(* C6 as stated: for finite target >= 0 and tolerance >= 0 the relative     *)
(* check succeeds on the exact products (1 - e)*t and (1 + e)*t, fails with *)
(* BelowRange on everything below the first and with AboveRange on          *)
(* everything above the second.                                             *)
(***************************************************************************)
C6_ExactProducts ==
    (Done /\ IsMul /\ IsFinite(val) /\ IsFinite(target) /\ IsFinite(eps)
          /\ ~FLt(target, zero) /\ ~FLt(eps, zero)) =>
        LET m == Exact(val) * Unit
            lo == (Unit - Exact(eps)) * Exact(target)
            hi == (Unit + Exact(eps)) * Exact(target)
        IN  /\ (m = lo \/ m = hi) => Succeeded
            /\ m < lo => Failed("BelowRange")
            /\ m > hi => Failed("AboveRange")

(***************************************************************************)
(* C6 as amended: for finite target >= 0 and tolerance >= 0, with           *)
(* the bounds (1 - e)*t and (1 + e)*t as computed in N (the sum, the        *)
(* difference and the products rounded to nearest), the relative check      *)
(* succeeds on a measurement equal to either computed bound, fails with     *)
(* BelowRange on every measurement below the computed lower bound and with  *)
(* AboveRange on every measurement above the computed upper bound.          *)
(***************************************************************************)
C6_ComputedProducts ==
    (Done /\ IsMul /\ ~is_nan(val) /\ IsFinite(target)
          /\ ~FLt(target, zero) /\ ValidEps) =>
        LET lo == FMul(FSub(one, eps), target)
            hi == FMul(FAdd(one, eps), target)
        IN  /\ (FEq(val, lo) \/ FEq(val, hi)) => Succeeded
            /\ FLt(val, lo) => Failed("BelowRange")
            /\ FGt(val, hi) => Failed("AboveRange")

\* A positive target and tolerance, the measurement at the computed upper
\* bound (which differs from the target), accepted.
C6_Witness ==
    /\ Done /\ IsMul /\ IsFinite(target)
    /\ FGt(target, zero) /\ FGt(eps, zero)
    /\ FEq(val, FMul(FAdd(one, eps), target)) /\ FGt(val, target)
    /\ Succeeded

(***************************************************************************)
(* C7: for every non-NaN target and tolerance >= 0, a measurement equal to  *)
(* target - tolerance or target + tolerance passes the additive check and a *)
(* measurement equal to target * (1 - tolerance) or target * (1 +           *)
(* tolerance) passes the relative check.                                    *)
(***************************************************************************)
C7_BoundaryInclusive ==
    (Done /\ ValidEps /\ ~is_nan(target)
          /\ (FEq(val, LowerBound) \/ FEq(val, UpperBound))) => Succeeded

(***************************************************************************)
(* Vocabulary of the message properties.                                    *)
(***************************************************************************)
\* The context each entry point hands to the function.
Context ==
    IF via \in {"+", "~"} /\ ~fmt_args.present THEN ""
    ELSE Render(fmt_args.tmpl)

\* The piece occurs in the message before its last piece.
ContainsBefore(m, piece) == \E i \in 1..(Len(m) - 1) : m[i] = piece

SiteAndContext(m) ==
    /\ ContainsBefore(m, file)
    /\ ContainsBefore(m, ToString(line))
    /\ m[Len(m)] = Context

ImplicatedLabels(m) ==
    /\ result.branch = "val_nan" => ContainsBefore(m, val_str)
    /\ result.branch = "target_nan" => ContainsBefore(m, target_str)
    /\ result.branch \in {"below", "above"} =>
          ContainsBefore(m, val_str) /\ ContainsBefore(m, target_str)

(***************************************************************************)
(* C8 as stated: every failure message holds the site (file and line), the  *)
(* labels of the implicated operands, the displayed values of measurement   *)
(* and target (of the tolerance for InvalidTolerance), and ends with the    *)
(* context.                                                                 *)
(***************************************************************************)
C8_MessageContents ==
    pc = "panicked" =>
        /\ SiteAndContext(result.msg)
        /\ ImplicatedLabels(result.msg)
        /\ IF Kind(result.branch) = "InvalidTolerance"
           THEN ContainsBefore(result.msg, Display(eps))
           ELSE /\ ContainsBefore(result.msg, Display(val))
                /\ ContainsBefore(result.msg, Display(target))

(***************************************************************************)
(* C8 as amended: every failure message holds the site (file and line),     *)
(* the labels of the implicated operands, and ends with the context; it     *)
(* displays the tolerance for InvalidTolerance, the measurement and the     *)
(* target (and the tolerance) for BelowRange and AboveRange, and for        *)
(* NotANumber the NaN operand alone.                                        *)
(***************************************************************************)
C8_MessageContentsByKind ==
    pc = "panicked" =>
        /\ SiteAndContext(result.msg)
        /\ ImplicatedLabels(result.msg)
        /\ Kind(result.branch) = "InvalidTolerance" =>
              ContainsBefore(result.msg, Display(eps))
        /\ result.branch = "val_nan" => ContainsBefore(result.msg, Display(val))
        /\ result.branch = "target_nan" =>
              ContainsBefore(result.msg, Display(target))
        /\ result.branch \in {"below", "above"} =>
              /\ ContainsBefore(result.msg, Display(val))
              /\ ContainsBefore(result.msg, Display(target))
              /\ ContainsBefore(result.msg, Display(eps))

\* A relative-mode range failure, with a context, whose message shows the
\* distinct values of measurement and target.
C8_Witness ==
    /\ pc = "panicked" /\ IsMul /\ result.branch = "above"
    /\ Display(val) # Display(target)
    /\ ContainsBefore(result.msg, Display(target))
    /\ result.msg[Len(result.msg)] = "seed=7"

(***************************************************************************)
(* C9: an invocation of assert_within! with the sigil + runs the additive   *)
(* check and one with the sigil ~ runs the relative check, on the first     *)
(* argument as tolerance, the second as measurement and the third as        *)
(* target, with their source text as labels and the rendered format         *)
(* arguments (nothing when absent) as context.                              *)
(***************************************************************************)
C9_MacroDispatch ==
    via \in {"+", "~"} =>
        /\ Done
        /\ via = "+" =>
              /\ IsAdd
              /\ result = assert_within_add_impl(file, line, val, val_str,
                              target, target_str, eps, Context)
        /\ via = "~" =>
              /\ IsMul
              /\ result = assert_within_mul_impl(file, line, val, val_str,
                              target, target_str, eps, Context)

(***************************************************************************)
(* C10 as stated: in the relative check, for a target < 0 and a tolerance   *)
(* > 0 every non-NaN measurement fails, with BelowRange when it is below    *)
(* (1 - e)*t and with AboveRange otherwise (and it is then above            *)
(* (1 + e)*t); with a target < 0 the check succeeds only when the           *)
(* tolerance is 0 and the measurement equals the target.                    *)
(***************************************************************************)
C10_NegativeTargetRejectsAll ==
    (Done /\ IsMul /\ ValidEps /\ FLt(target, zero) /\ ~is_nan(val)) =>
        /\ FGt(eps, zero) =>
              IF FLt(val, LowerBound) THEN Failed("BelowRange")
              ELSE Failed("AboveRange") /\ FGt(val, UpperBound)
        /\ Succeeded => (FEq(eps, zero) /\ FEq(val, target))

(***************************************************************************)
(* C10 as amended: in the relative check, for a target < 0 and a tolerance  *)
(* >= 0 every non-NaN measurement other than the target fails, with         *)
(* BelowRange when it is below the computed (1 - e)*t and with AboveRange   *)
(* otherwise (and it is then above the computed (1 + e)*t); a measurement   *)
(* equal to the target fails with BelowRange when the computed (1 - e)*t is *)
(* greater than the target, else with AboveRange when the computed          *)
(* (1 + e)*t is less than the target, and succeeds otherwise.  So with a    *)
(* target < 0 the check succeeds only when the measurement equals the       *)
(* target and neither computed bound has moved away from it.                *)
(***************************************************************************)
C10_NegativeTargetRejectsOthers ==
    (Done /\ IsMul /\ ValidEps /\ FLt(target, zero) /\ ~is_nan(val)) =>
        /\ ~FEq(val, target) =>
              IF FLt(val, LowerBound) THEN Failed("BelowRange")
              ELSE Failed("AboveRange") /\ FGt(val, UpperBound)
        /\ FEq(val, target) =>
              IF FGt(LowerBound, target) THEN Failed("BelowRange")
              ELSE IF FLt(UpperBound, target) THEN Failed("AboveRange")
              ELSE Succeeded

\* A negative target and a positive tolerance: a measurement between the
\* two computed bounds is rejected as above the range.
C10_Witness ==
    /\ Done /\ IsMul /\ FLt(target, zero) /\ FGt(eps, zero)
    /\ IsFinite(val) /\ FLt(val, LowerBound) = FALSE /\ FLt(val, zero)
    /\ FGt(val, target)
    /\ Failed("AboveRange")

====
